---- MODULE Spec2Model ----
(***************************************************************************)
(* A model of src/src/utils/knesset_db.py: the member-list cache and the  *)
(* operations built on it (roster, party tally, name lookup, profile),    *)
(* the name matcher, the committee roster merge, the bill document        *)
(* ranking and the bill text retrieval loop.                              *)
(*                                                                         *)
(* Python strings are sequences of one-character strings; Python dicts    *)
(* are records whose DOMAIN is the dict's key set, so a missing key is a  *)
(* key that is not in DOMAIN.                                             *)
(***************************************************************************)
EXTENDS Integers, Sequences, FiniteSets, TLC

VARIABLES
    upstream,   \* what the members endpoint returns for is_current = TRUE / FALSE
    cache,      \* the lru_cache of _fetch_members: a function on the flags fetched so far
    writes,     \* history: how many times each flag's cache entry was written
    ret,        \* the last public operation: its name, arguments and outcome
    mk,         \* input of the name matcher: one member record
    query,      \* input of the name matcher: the query string
    rows,       \* input of the committee roster: KNS_PersonToPosition rows
    docs,       \* input of the document ranking: KNS_DocumentBill rows
    pc,         \* position of the pure-function callers and of get_bill_text
    cursor,     \* get_bill_text: index of the next ranked document to try
    attempts    \* history of get_bill_text: the documents fetched, with what came back

vars == <<upstream, cache, writes, ret, mk, query, rows, docs, pc, cursor, attempts>>

memberVars == <<upstream, cache, writes>>
inputVars == <<mk, query, rows, docs>>
billVars == <<cursor, attempts>>

-----------------------------------------------------------------------------
(* Bounds of the model.                                                    *)

MaxCur == 2          \* members the endpoint returns for is_current = true
MaxFormer == 1       \* members the endpoint returns for is_current = false
MaxQueryLen == 2     \* length of a name-lookup query
MaxSessionQueryLen == 1  \* length of a query within a session of operations
MaxMatchLen == 3     \* length of a query handed to the name matcher alone
MaxNameLen == 1      \* length of a first or last name handed to the name matcher alone
MaxRows == 3         \* position rows of one committee
MaxDocs == 3         \* document rows of one bill (ranking)
MaxTextDocs == 3     \* document rows of one bill (text retrieval)
MaxPages == 2        \* pages of one fetched document
MaxChars == 3        \* largest character budget tried
MaxFactions == 3     \* memberships of one member (faction resolver)

-----------------------------------------------------------------------------
(* Python str, list and dict operations.                                   *)

SeqsUpTo(S, n) == UNION {[1..k -> S] : k \in 0..n}

\* Code points of the characters the model uses (Python compares str by code point).
CodePoint(c) ==
    CASE c = "\n" -> 10
      [] c = " "  -> 32
      [] c = "/"  -> 47
      [] c = "0"  -> 48
      [] c = "1"  -> 49
      [] c = "2"  -> 50
      [] c = "A"  -> 65
      [] c = "B"  -> 66
      [] c = "\\" -> 92
      [] c = "a"  -> 97
      [] c = "b"  -> 98
      [] c = "c"  -> 99
      [] c = "p"  -> 112
      [] c = "x"  -> 120
      [] c = "y"  -> 121
      [] c = "z"  -> 122
      [] c = "G"  -> 931
      [] c = "f"  -> 962
      [] c = "g"  -> 963
      [] OTHER    -> 1500

\* The letters of the model.  "G" stands for the Greek capital sigma (U+03A3), "g"
\* for the small sigma (U+03C3) and "f" for the final small sigma (U+03C2).
IsCased(c) == c \in {"A", "B", "a", "b", "c", "p", "x", "y", "z", "G", "g", "f"}

\* the lower-case form of one character on its own
LowerChar(c) ==
    CASE c = "A" -> "a"
      [] c = "B" -> "b"
      [] c = "G" -> "g"
      [] OTHER   -> c

\* str.lower(): character by character, except that a capital sigma that ends a
\* word (a cased letter before it, none after it) becomes the final sigma
Lower(s) ==
    [i \in 1..Len(s) |->
        IF /\ s[i] = "G"
           /\ i > 1 /\ IsCased(s[i - 1])
           /\ ~(i < Len(s) /\ IsCased(s[i + 1]))
        THEN "f"
        ELSE LowerChar(s[i])]

IsSpace(c) == c \in {" ", "\n"}

\* str.strip()
Strip(s) ==
    LET keep == {i \in 1..Len(s) : ~IsSpace(s[i])}
        lo == CHOOSE i \in keep : \A j \in keep : i <= j
        hi == CHOOSE i \in keep : \A j \in keep : j <= i
    IN IF keep = {} THEN <<>> ELSE SubSeq(s, lo, hi)

\* a in b, for str
IsSubstr(a, b) ==
    \E i \in 0..(Len(b) - Len(a)) : SubSeq(b, i + 1, i + Len(a)) = a

\* s[:n], for n >= 0 and for n < 0
SliceTo(s, n) ==
    IF n >= 0
    THEN SubSeq(s, 1, IF n < Len(s) THEN n ELSE Len(s))
    ELSE SubSeq(s, 1, IF Len(s) + n > 0 THEN Len(s) + n ELSE 0)

\* a < b, for str: lexicographic by code point
StrLess(a, b) ==
    \E i \in 1..(Len(b)) :
        /\ i <= Len(a) + 1
        /\ \A j \in 1..(i - 1) : a[j] = b[j]
        /\ \/ i = Len(a) + 1
           \/ CodePoint(a[i]) < CodePoint(b[i])

\* list.sort(key=...): the stable sort of seq, where less holds the pairs <<i, j>>
\* of positions with key(seq[i]) < key(seq[j]).  Element i goes after every element
\* with a smaller key and after the earlier elements with an equal key.
StableSort(seq, less) ==
    LET n == Len(seq)
        pos(i) == 1 + Cardinality({j \in 1..n : <<j, i>> \in less})
                    + Cardinality({j \in 1..(i - 1) :
                                      <<j, i>> \notin less /\ <<i, j>> \notin less})
    IN [p \in 1..n |-> seq[CHOOSE i \in 1..n : pos(i) = p]]

\* the pairs of positions of seq
Pairs(seq) == (1..Len(seq)) \X (1..Len(seq))

\* d[k] = v
Put(d, k, v) == [f \in DOMAIN d \cup {k} |-> IF f = k THEN v ELSE d[f]]

\* d.get(k, default)
GetOr(d, k, default) == IF k \in DOMAIN d THEN d[k] ELSE default

\* sep.join(parts)
RECURSIVE Join(_, _)
Join(sep, parts) ==
    IF Len(parts) = 0 THEN <<>>
    ELSE IF Len(parts) = 1 THEN parts[1]
    ELSE parts[1] \o sep \o Join(sep, Tail(parts))

\* the indices i of seq with i in keepSet, ascending
RECURSIVE IndicesFrom(_, _, _)
IndicesFrom(seq, keepSet, i) ==
    IF i > Len(seq) THEN <<>>
    ELSE IF i \in keepSet THEN <<i>> \o IndicesFrom(seq, keepSet, i + 1)
    ELSE IndicesFrom(seq, keepSet, i + 1)

RECURSIVE SumSeq(_)
SumSeq(s) == IF s = <<>> THEN 0 ELSE Head(s) + SumSeq(Tail(s))

-----------------------------------------------------------------------------
(* Member records, as the members endpoint delivers them (lines 11-17):    *)
(* mk_individual_id, mk_individual_first_name, mk_individual_name,         *)
(* altnames, factions.  A faction record has faction_name, start_date and  *)
(* knesset.  The empty dict stands for a falsy entry of a factions list.    *)

Terms == {24, 25}

\* Python None as a knesset_num
NoKnesset == 0

Faction(name, start, k) == [faction_name |-> name, start_date |-> start, knesset |-> k]

Member(first, last, alts, facs) ==
    [mk_individual_first_name |-> first, mk_individual_name |-> last,
     altnames |-> alts, factions |-> facs]

\* the endpoint's records carry distinct ids: the id is the position in the two lists
WithIds(list, base) ==
    [i \in 1..Len(list) |-> Put(list[i], "mk_individual_id", base + i)]

-----------------------------------------------------------------------------
(* Helpers (lines 43-106).                                                 *)

\* _fetch_members under lru_cache: a hit returns the cached list; a miss asks the
\* endpoint, and caches the answer unless the request raised.
FetchMembers(cs, is_current, ok) ==
    IF is_current \in DOMAIN cs.cache THEN cs
    ELSE IF ok
    THEN [cache  |-> (is_current :> upstream[is_current]) @@ cs.cache,
          writes |-> [cs.writes EXCEPT ![is_current] = @ + 1],
          raised |-> FALSE]
    ELSE [cs EXCEPT !.raised = TRUE]

\* current = _fetch_members(True); former = _fetch_members(False)
LoadMembers(okCur, okFormer) ==
    LET c1 == FetchMembers([cache |-> cache, writes |-> writes, raised |-> FALSE],
                           TRUE, okCur)
    IN IF c1.raised THEN c1 ELSE FetchMembers(c1, FALSE, okFormer)

\* bool(f) and f.get("knesset") == knesset_num
InKnesset(f, knesset_num) ==
    /\ DOMAIN f # {}
    /\ GetOr(f, "knesset", NoKnesset) = knesset_num

\* _get_all_members_raw, given current + former
MembersRaw(all_members, knesset_num) ==
    IF knesset_num = NoKnesset THEN all_members
    ELSE LET served(m) ==
                 \E i \in 1..Len(GetOr(m, "factions", <<>>)) :
                     InKnesset(m.factions[i], knesset_num)
         IN SelectSeq(all_members, served)

\* _most_recent_faction returning the first membership of the term, whatever its date
MostRecentFactionFirstRelevant(factions, knesset_num) ==
    LET inK(f) == InKnesset(f, knesset_num)
        relevant == SelectSeq(factions, inK)
    IN IF relevant = <<>> THEN <<>> ELSE <<relevant[1]>>

\* _most_recent_faction: <<>> for None, else <<f>>; max() returns the first of the
\* elements with the greatest key
MostRecentFaction(factions, knesset_num) ==
    LET inK(f) == InKnesset(f, knesset_num)
        relevant == SelectSeq(factions, inK)
        key(f) == GetOr(f, "start_date", <<>>)
        best == CHOOSE i \in 1..Len(relevant) :
                    /\ \A j \in 1..Len(relevant) : ~StrLess(key(relevant[i]), key(relevant[j]))
                    /\ \A j \in 1..(i - 1) : StrLess(key(relevant[j]), key(relevant[i]))
    IN IF relevant = <<>> THEN <<>> ELSE <<relevant[best]>>

\* the candidate names _name_matches builds
Candidates(m) ==
    LET first == GetOr(m, "mk_individual_first_name", <<>>)
        last  == GetOr(m, "mk_individual_name", <<>>)
    IN <<Strip(first \o <<" ">> \o last), Strip(last \o <<" ">> \o first)>>
       \o GetOr(m, "altnames", <<>>)

\* _name_matches comparing the lower-cased query with the names as stored
NameMatchesCaseSensitive(m, q) ==
    LET qs == Strip(q)
        query_lower == Lower(qs)
        candidates == Candidates(m)
    IN \E i \in 1..Len(candidates) :
          LET name == candidates[i]
          IN /\ name # <<>>
             /\ \/ Strip(name) = qs
                \/ IsSubstr(query_lower, name)
                \/ IsSubstr(name, query_lower)

\* _name_matches
NameMatches(m, q) ==
    LET qs == Strip(q)
        query_lower == Lower(qs)
        candidates == Candidates(m)
    IN \E i \in 1..Len(candidates) :
          LET name == candidates[i]
          IN /\ name # <<>>
             /\ \/ Strip(name) = qs
                \/ IsSubstr(query_lower, Lower(name))
                \/ IsSubstr(Lower(name), query_lower)

-----------------------------------------------------------------------------
(* Public member operations (lines 111-156, 225-237), as functions of the  *)
(* list current + former.                                                  *)

\* key=lambda x: x.get("last_name", "")
LastNameKeyLess(a, b) ==
    StrLess(GetOr(a, "last_name", <<>>), GetOr(b, "last_name", <<>>))

\* get_all_mks
AllMks(all_members, knesset_num) ==
    LET result == MembersRaw(all_members, knesset_num)
    IN StableSort(result, {p \in Pairs(result) : LastNameKeyLess(result[p[1]], result[p[2]])})

\* counts[name] = counts.get(name, 0) + 1, on an insertion-ordered dict
CountOne(counts, name) ==
    IF \E i \in 1..Len(counts) : counts[i].party = name
    THEN [i \in 1..Len(counts) |->
             IF counts[i].party = name
             THEN [counts[i] EXCEPT !.mk_count = @ + 1] ELSE counts[i]]
    ELSE Append(counts, [party |-> name, mk_count |-> 1])

\* the loop of get_all_parties over the members from position i on
RECURSIVE CountParties(_, _, _, _)
CountParties(members, knesset_num, i, counts) ==
    IF i > Len(members) THEN counts
    ELSE LET truthy(f) == DOMAIN f # {}
             faction == MostRecentFaction(
                            SelectSeq(GetOr(members[i], "factions", <<>>), truthy),
                            knesset_num)
         IN CountParties(members, knesset_num, i + 1,
                IF faction # <<>>
                THEN CountOne(counts, Strip(faction[1].faction_name))
                ELSE counts)

\* the sort of the tally without reverse=True
FewerSeats(a, b) == a.mk_count < b.mk_count

\* key=lambda x: x["mk_count"], reverse=True
MoreSeats(a, b) == a.mk_count > b.mk_count

\* get_all_parties
AllParties(all_members, knesset_num) ==
    LET result == CountParties(MembersRaw(all_members, knesset_num), knesset_num, 1, <<>>)
    IN StableSort(result, {p \in Pairs(result) : MoreSeats(result[p[1]], result[p[2]])})

\* get_mk_by_name: the positions in current + former of the matching records
MatchIndices(all_members, name) ==
    IndicesFrom(all_members, {i \in 1..Len(all_members) : NameMatches(all_members[i], name)}, 1)

\* get_mk_by_name
MkByName(all_members, name) ==
    [j \in 1..Len(MatchIndices(all_members, name)) |->
        all_members[MatchIndices(all_members, name)[j]]]

\* get_mk_profile after the lookup: what it returns or raises, and the first match as
\* it leaves it (the match is the cached dict itself, written in place)
MkProfile(all_members, name) ==
    LET idx == MatchIndices(all_members, name)
        matches == [j \in 1..Len(idx) |-> all_members[idx[j]]]
        flagged == Put(matches[1], "multiple_matches", Len(matches) > 1)
        others == Tail(matches)
    IN IF matches = <<>>
       THEN [kind |-> "none", err |-> "", at |-> 0, out |-> <<>>]
       ELSE IF Len(matches) <= 1
       THEN [kind |-> "value", err |-> "", at |-> idx[1], out |-> flagged]
       ELSE IF \E j \in 1..Len(others) : "full_name" \notin DOMAIN others[j]
       THEN [kind |-> "raise", err |-> "KeyError", at |-> idx[1], out |-> flagged]
       ELSE [kind |-> "value", err |-> "", at |-> idx[1],
             out |-> Put(flagged, "other_matches",
                         [j \in 1..Len(others) |-> others[j].full_name])]

\* the cache with the record at position `at` of current + former replaced
WriteBack(c, at, rec) ==
    IF at = 0 THEN c
    ELSE IF at <= Len(c[TRUE])
    THEN [c EXCEPT ![TRUE][at] = rec]
    ELSE [c EXCEPT ![FALSE][at - Len(c[TRUE])] = rec]

AllMembers(c) == c[TRUE] \o c[FALSE]

Raised(op, arg) ==
    [op |-> op, arg |-> arg, kind |-> "raise", err |-> "network", out |-> <<>>]

Returned(op, arg, out) ==
    [op |-> op, arg |-> arg, kind |-> "value", err |-> "", out |-> out]

-----------------------------------------------------------------------------
(* The member operations as actions.  okCur and okFormer say whether the   *)
(* endpoint answers, should the operation have to ask it.                  *)

Answers(is_current) == IF is_current \in DOMAIN cache THEN {TRUE} ELSE BOOLEAN

GetAllMks(knesset_num) ==
    \E okCur \in Answers(TRUE), okFormer \in Answers(FALSE) :
        LET cs == LoadMembers(okCur, okFormer)
        IN /\ cache' = cs.cache
           /\ writes' = cs.writes
           /\ ret' = IF cs.raised THEN Raised("get_all_mks", knesset_num)
                     ELSE Returned("get_all_mks", knesset_num,
                                   AllMks(AllMembers(cs.cache), knesset_num))
           /\ UNCHANGED <<upstream, inputVars, billVars>>

GetAllParties(knesset_num) ==
    \E okCur \in Answers(TRUE), okFormer \in Answers(FALSE) :
        LET cs == LoadMembers(okCur, okFormer)
        IN /\ cache' = cs.cache
           /\ writes' = cs.writes
           /\ ret' = IF cs.raised THEN Raised("get_all_parties", knesset_num)
                     ELSE Returned("get_all_parties", knesset_num,
                                   AllParties(AllMembers(cs.cache), knesset_num))
           /\ UNCHANGED <<upstream, inputVars, billVars>>

GetMkByName(name) ==
    \E okCur \in Answers(TRUE), okFormer \in Answers(FALSE) :
        LET cs == LoadMembers(okCur, okFormer)
        IN /\ cache' = cs.cache
           /\ writes' = cs.writes
           /\ ret' = IF cs.raised THEN Raised("get_mk_by_name", name)
                     ELSE Returned("get_mk_by_name", name,
                                   MkByName(AllMembers(cs.cache), name))
           /\ UNCHANGED <<upstream, inputVars, billVars>>

GetMkProfile(name) ==
    \E okCur \in Answers(TRUE), okFormer \in Answers(FALSE) :
        LET cs == LoadMembers(okCur, okFormer)
            r == MkProfile(AllMembers(cs.cache), name)
        IN /\ writes' = cs.writes
           /\ IF cs.raised
              THEN /\ cache' = cs.cache
                   /\ ret' = Raised("get_mk_profile", name)
              ELSE /\ cache' = WriteBack(cs.cache, r.at, r.out)
                   /\ ret' = [op |-> "get_mk_profile", arg |-> name, kind |-> r.kind,
                              err |-> r.err, out |-> r.out]
           /\ UNCHANGED <<upstream, inputVars, billVars>>

-----------------------------------------------------------------------------
(* Initial states.                                                         *)

NoCall == [op |-> "none", arg |-> <<>>, kind |-> "none", err |-> "", out |-> <<>>]

NoMembers ==
    /\ upstream = [b \in BOOLEAN |-> <<>>]
    /\ cache = <<>>
    /\ writes = [b \in BOOLEAN |-> 0]

NoInputs ==
    /\ mk = <<>>
    /\ query = <<>>
    /\ rows = <<>>
    /\ docs = <<>>

NoBill ==
    /\ cursor = 0
    /\ attempts = <<>>

\* the endpoint holds up to MaxCur current and MaxFormer former members of the pool
InitMembers(pool) ==
    /\ \E c \in SeqsUpTo(pool, MaxCur), f \in SeqsUpTo(pool, MaxFormer) :
           upstream = [b \in BOOLEAN |->
                          IF b THEN WithIds(c, 0) ELSE WithIds(f, Len(c))]
    /\ cache = <<>>
    /\ writes = [b \in BOOLEAN |-> 0]
    /\ ret = NoCall
    /\ NoInputs
    /\ NoBill

\* members that differ in their names
FirstNames == {<<>>, <<"A">>}
LastNames == {<<>>, <<"b", "G">>}
NamePool ==
    {Member(f, l, <<>>, <<Faction(<<"x">>, <<"1">>, 25)>>) :
        f \in FirstNames, l \in LastNames}

\* members that differ in their last name and their faction history
Histories ==
    { <<Faction(<<"x">>, <<"1">>, 25)>>,
      <<Faction(<<"y">>, <<"1">>, 25), Faction(<<"x", " ">>, <<"2">>, 25)>>,
      <<Faction(<<"x">>, <<"2">>, 24), <<>>, Faction(<<" ", "y">>, <<>>, 25)>>,
      <<Faction(<<"y">>, <<"1">>, 24)>> }
TermPool ==
    {Member(<<>>, l, <<>>, h) : l \in {<<"a">>, <<"b">>}, h \in Histories}

-----------------------------------------------------------------------------
(* Spec: a session of member operations, in any order and number, over     *)
(* members that differ in their names.                                     *)

SessionQueries == SeqsUpTo({"a", "b", " "}, MaxSessionQueryLen)

Init ==
    /\ InitMembers(NamePool)
    /\ pc = "session"

SessionRoster ==
    /\ UNCHANGED pc
    /\ \E k \in Terms \cup {NoKnesset} : GetAllMks(k)

SessionTally ==
    /\ UNCHANGED pc
    /\ \E k \in Terms \cup {NoKnesset} : GetAllParties(k)

SessionLookup ==
    /\ UNCHANGED pc
    /\ \E q \in SessionQueries : GetMkByName(q)

SessionProfile ==
    /\ UNCHANGED pc
    /\ \E q \in SessionQueries : GetMkProfile(q)

Next == SessionRoster \/ SessionTally \/ SessionLookup \/ SessionProfile

Spec == Init /\ [][Next]_vars

-----------------------------------------------------------------------------
(* SpecLookup: one name lookup on a cold cache.                            *)

Queries == SeqsUpTo({"a", "B", "G", " "}, MaxQueryLen)

InitLookup ==
    /\ InitMembers(NamePool)
    /\ pc = "call"

Lookup ==
    /\ pc = "call"
    /\ pc' = "done"
    /\ \E q \in Queries : GetMkByName(q)

SpecLookup == InitLookup /\ [][Lookup]_vars

-----------------------------------------------------------------------------
(* SpecTerm: one roster or party-tally call on a cold cache, over members  *)
(* that differ in their faction histories.                                 *)

InitTerm ==
    /\ InitMembers(TermPool)
    /\ pc = "call"

Roster ==
    /\ pc = "call"
    /\ pc' = "done"
    /\ \E k \in Terms \cup {NoKnesset} : GetAllMks(k)

Tally ==
    /\ pc = "call"
    /\ pc' = "done"
    /\ \E k \in Terms \cup {NoKnesset} : GetAllParties(k)

NextTerm == Roster \/ Tally

SpecTerm == InitTerm /\ [][NextTerm]_vars

-----------------------------------------------------------------------------
(* Claims about the member operations.                                     *)

\* a person's full name: first name, space, last name, trimmed
FullName(m) == Strip(m.mk_individual_first_name \o <<" ">> \o m.mk_individual_name)

ProfileAnswered == ret.op = "get_mk_profile" /\ ret.err # "network"

\* C1: get_mk_profile returns None on zero matches; on two or more matches it
\* returns, without raising, the first match with multiple_matches = TRUE and
\* other_matches = the full names of the remaining matches in match order; on
\* exactly one match multiple_matches is FALSE.
C1_ProfileContract ==
    ProfileAnswered =>
        LET all == AllMembers(cache)
            idx == MatchIndices(all, ret.arg)
        IN /\ Len(idx) = 0 => ret.kind = "none"
           /\ Len(idx) = 1 =>
                 /\ ret.kind = "value"
                 /\ ret.out.mk_individual_id = all[idx[1]].mk_individual_id
                 /\ ret.out.multiple_matches = FALSE
           /\ Len(idx) >= 2 =>
                 /\ ret.kind = "value"
                 /\ ret.out.mk_individual_id = all[idx[1]].mk_individual_id
                 /\ ret.out.multiple_matches = TRUE
                 /\ ret.out.other_matches =
                        [j \in 1..(Len(idx) - 1) |-> FullName(all[idx[j + 1]])]

\* s is some substring of t, with the case of its letters changed at will
CaseVariantOfSubstring(s, t) ==
    \E i \in 1..(Len(t) + 1), j \in 0..Len(t) :
        /\ j - i + 1 = Len(s)
        /\ \A n \in 1..Len(s) : LowerChar(s[n]) = LowerChar(t[i + n - 1])

LookupReturned == ret.op = "get_mk_by_name" /\ ret.kind = "value"

\* C2 as stated: for every person P of the two member lists and every substring S of
\* P's full name, in any letter case, get_mk_by_name(S) includes P.
C2_EverySubstringFinds ==
    LookupReturned =>
        \A i \in 1..Len(AllMembers(cache)) :
            CaseVariantOfSubstring(ret.arg, FullName(AllMembers(cache)[i]))
                => \E j \in 1..Len(ret.out) : ret.out[j] = AllMembers(cache)[i]

\* C2, amended: for every person P whose full name is not empty, and every S that is
\* a substring of P's full name in any letter case and whose lower-cased form occurs
\* in the lower-cased full name, get_mk_by_name(S) includes P.
C2_NonEmptyNameSubstringFinds ==
    LookupReturned =>
        \A i \in 1..Len(AllMembers(cache)) :
            LET full == FullName(AllMembers(cache)[i])
            IN (/\ full # <<>>
                /\ CaseVariantOfSubstring(ret.arg, full)
                /\ IsSubstr(Lower(ret.arg), Lower(full)))
                   => \E j \in 1..Len(ret.out) : ret.out[j] = AllMembers(cache)[i]

\* a lookup by a proper part of a name, in another letter case, found its person and
\* left another person out
C2_Witness ==
    /\ LookupReturned
    /\ Len(ret.out) < Len(AllMembers(cache))
    /\ \E j \in 1..Len(ret.out) :
          /\ CaseVariantOfSubstring(ret.arg, FullName(ret.out[j]))
          /\ ~IsSubstr(ret.arg, FullName(ret.out[j]))
          /\ Len(ret.arg) < Len(FullName(ret.out[j]))
          /\ ret.arg # <<>>

\* C9: once a member list is cached no operation changes the cached records.
C9_CacheReadOnly ==
    [][\A f \in DOMAIN cache : f \in DOMAIN cache' /\ cache'[f] = cache[f]]_vars

\* the memoization cache is written at most once per flag value
CacheWrittenOnce == \A f \in BOOLEAN : writes[f] <= 1

-----------------------------------------------------------------------------
(* Claims about the roster and the party tally.                            *)

\* the member has a faction membership whose term number is k
ServedIn(m, k) ==
    \E n \in 1..Len(m.factions) :
        "knesset" \in DOMAIN m.factions[n] /\ m.factions[n].knesset = k

TallyReturned ==
    ret.op = "get_all_parties" /\ ret.kind = "value" /\ ret.arg \in Terms

\* the stripped faction names the resolver gives the roster persons, in roster order
ResolvedNames(all, k) ==
    LET roster == IndicesFrom(all, {i \in 1..Len(all) : ServedIn(all[i], k)}, 1)
        resolved(i) == MostRecentFaction(all[roster[i]].factions, k)
        has == IndicesFrom(roster, {i \in 1..Len(roster) : resolved(i) # <<>>}, 1)
    IN [n \in 1..Len(has) |-> Strip(resolved(has[n])[1].faction_name)]

FirstSeen(names, name) ==
    CHOOSE n \in 1..Len(names) : names[n] = name /\ \A o \in 1..(n - 1) : names[o] # name

\* C4: the party tally of a term has one entry per distinct faction name, its counts
\* sum to the number of roster persons the resolver gives a membership in the term,
\* it is ordered by count non-increasing, and entries with equal counts keep the
\* order in which their faction was first encountered in the roster.
C4_PartyTally ==
    TallyReturned =>
        LET names == ResolvedNames(AllMembers(cache), ret.arg)
            out == ret.out
        IN /\ {out[i].party : i \in 1..Len(out)} = {names[n] : n \in 1..Len(names)}
           /\ \A i, j \in 1..Len(out) : out[i].party = out[j].party => i = j
           /\ SumSeq([i \in 1..Len(out) |-> out[i].mk_count]) = Len(names)
           /\ \A i, j \in 1..Len(out) : i < j =>
                 /\ out[i].mk_count >= out[j].mk_count
                 /\ out[i].mk_count = out[j].mk_count =>
                        FirstSeen(names, out[i].party) < FirstSeen(names, out[j].party)

\* a tally in which the sort moved the larger party, met second, to the front
C4_Witness ==
    /\ TallyReturned
    /\ Len(ret.out) = 2
    /\ ret.out[1].mk_count = 2
    /\ ret.out[2].mk_count = 1
    /\ ResolvedNames(AllMembers(cache), ret.arg)[1] = ret.out[2].party

RosterReturned ==
    ret.op = "get_all_mks" /\ ret.kind = "value" /\ ret.arg \in Terms

\* C8: the roster of a term is exactly the persons with a faction membership in the
\* term, sorted by last name ascending.
C8_RosterSortedByLastName ==
    RosterReturned =>
        LET all == AllMembers(cache)
            out == ret.out
        IN /\ {out[i].mk_individual_id : i \in 1..Len(out)}
                  = {all[i].mk_individual_id : i \in {n \in 1..Len(all) : ServedIn(all[n], ret.arg)}}
           /\ \A i, j \in 1..Len(out) : out[i].mk_individual_id = out[j].mk_individual_id => i = j
           /\ \A i, j \in 1..Len(out) : i < j =>
                  ~StrLess(out[j].mk_individual_name, out[i].mk_individual_name)

-----------------------------------------------------------------------------
(* SpecMatch: the name matcher alone, on one member record and one query.  *)

MatchNames == SeqsUpTo({"A", "b"}, MaxNameLen)
MatchAltNames == {<<>>, << <<>> >>, << <<"c">> >>}
MatchQueries == SeqsUpTo({"a", "b", "c", " "}, MaxMatchLen)

InitMatch ==
    /\ mk \in {Member(f, l, alts, <<>>) :
                  f \in MatchNames, l \in MatchNames, alts \in MatchAltNames}
    /\ query \in MatchQueries
    /\ rows = <<>>
    /\ docs = <<>>
    /\ NoMembers
    /\ NoBill
    /\ ret = NoCall
    /\ pc = "call"

Match ==
    /\ pc = "call"
    /\ pc' = "done"
    /\ ret' = Returned("_name_matches", query, NameMatches(mk, query))
    /\ UNCHANGED <<memberVars, inputVars, billVars>>

SpecMatch == InitMatch /\ [][Match]_vars

\* the candidate names of section 4.1: "first last", "last first", the first name
\* alone, the last name alone, and the alternate names
ClaimedCandidates(m) ==
    <<Strip(m.mk_individual_first_name \o <<" ">> \o m.mk_individual_name),
      Strip(m.mk_individual_name \o <<" ">> \o m.mk_individual_first_name),
      m.mk_individual_first_name,
      m.mk_individual_name>> \o m.altnames

\* C3: the matcher returns true exactly when some non-empty candidate among
\* "first last", "last first", first name alone, last name alone and the alternate
\* names equals the trimmed query, contains the lower-cased query, or is contained
\* in the lower-cased query.
C3_MatcherCandidates ==
    ret.op = "_name_matches" =>
        (ret.out <=>
            \E i \in 1..Len(ClaimedCandidates(mk)) :
                LET name == ClaimedCandidates(mk)[i]
                IN /\ name # <<>>
                   /\ \/ Strip(name) = Strip(query)
                      \/ IsSubstr(Lower(Strip(query)), Lower(name))
                      \/ IsSubstr(Lower(name), Lower(Strip(query))))

-----------------------------------------------------------------------------
(* The committee roster (lines 203-222).  The duty labels are written in   *)
(* Latin stand-ins for the Hebrew letters: M Q M is the acting marker      *)
(* (mem, gershayim, mem), Y V Q R the chair marker (yod, vav, gershayim,   *)
(* resh), H B R the word for a plain member.                               *)

ActingMark == <<"M", "Q", "M">>
ChairMark == <<"Y", "V", "Q", "R">>
MemberLabel == <<"H", "B", "R">>
ActingMemberLabel == MemberLabel \o <<" ">> \o ActingMark
ActingChairLabel == ActingMark \o <<" ">> \o ChairMark

\* duty = row.get("DutyDesc") or position.get("Description") or ""
RowDuty(row) ==
    LET position == GetOr(row, "KNS_Position", <<>>)
    IN IF GetOr(row, "DutyDesc", <<>>) # <<>> THEN row.DutyDesc
       ELSE GetOr(position, "Description", <<>>)

\* full_name of the row's person
RowFullName(row) ==
    LET person == GetOr(row, "KNS_Person", <<>>)
    IN Strip(GetOr(person, "FirstName", <<>>) \o <<" ">> \o GetOr(person, "LastName", <<>>))

\* one pass of the loop body, keeping the label seen first
MergeRowKeepFirst(seen, row) ==
    LET duty == RowDuty(row)
        mk_id == row.PersonID
    IN IF IsSubstr(ActingMark, duty) THEN seen
       ELSE IF ~\E i \in 1..Len(seen) : seen[i].mk_id = mk_id
       THEN Append(seen, [mk_id |-> mk_id, full_name |-> RowFullName(row), duty_desc |-> duty])
       ELSE seen

\* one pass of the loop body; seen is the dict in insertion order
MergeRow(seen, row) ==
    LET duty == RowDuty(row)
        mk_id == row.PersonID
    IN IF IsSubstr(ActingMark, duty) THEN seen
       ELSE IF ~\E i \in 1..Len(seen) : seen[i].mk_id = mk_id
       THEN Append(seen, [mk_id |-> mk_id, full_name |-> RowFullName(row), duty_desc |-> duty])
       ELSE [i \in 1..Len(seen) |->
                IF /\ seen[i].mk_id = mk_id
                   /\ IsSubstr(ChairMark, duty)
                   /\ ~IsSubstr(ChairMark, seen[i].duty_desc)
                THEN [seen[i] EXCEPT !.duty_desc = duty]
                ELSE seen[i]]

RECURSIVE MergeRows(_, _, _)
MergeRows(rs, i, seen) ==
    IF i > Len(rs) THEN seen ELSE MergeRows(rs, i + 1, MergeRow(seen, rs[i]))

FullNameLess(a, b) == StrLess(a.full_name, b.full_name)

\* get_active_committee_members, given the rows of the answer
ActiveCommitteeMembers(rs) ==
    LET seen == MergeRows(rs, 1, <<>>)
    IN StableSort(seen, {p \in Pairs(seen) : FullNameLess(seen[p[1]], seen[p[2]])})

-----------------------------------------------------------------------------
(* SpecCommittee: one committee roster call on up to MaxRows rows.         *)

PersonOf(id) ==
    [FirstName |-> <<>>, LastName |-> IF id = 1 THEN <<"b">> ELSE <<"a">>]

RowPool ==
    {[PersonID |-> id, KNS_Person |-> PersonOf(id), DutyDesc |-> duty,
      KNS_Position |-> [Description |-> desc]] :
        id \in {1, 2},
        duty \in {<<>>, MemberLabel, ChairMark, ActingMemberLabel, ActingChairLabel},
        desc \in {MemberLabel, ChairMark}}

InitCommittee ==
    /\ rows \in SeqsUpTo(RowPool, MaxRows)
    /\ mk = <<>>
    /\ query = <<>>
    /\ docs = <<>>
    /\ NoMembers
    /\ NoBill
    /\ ret = NoCall
    /\ pc = "call"

Committee ==
    /\ pc = "call"
    /\ pc' = "done"
    /\ \E ok \in BOOLEAN :
           ret' = IF ok
                  THEN Returned("get_active_committee_members", <<>>,
                                ActiveCommitteeMembers(rows))
                  ELSE Raised("get_active_committee_members", <<>>)
    /\ UNCHANGED <<memberVars, inputVars, billVars>>

SpecCommittee == InitCommittee /\ [][Committee]_vars

CommitteeReturned == ret.op = "get_active_committee_members" /\ ret.kind = "value"

\* C5 as stated: if any source row of a person carries a chair-designation label, the
\* merged entry's role is a chair-designation label.
C5_AnyChairRowWins ==
    CommitteeReturned =>
        \A e \in 1..Len(ret.out) :
            (\E r \in 1..Len(rows) :
                /\ rows[r].PersonID = ret.out[e].mk_id
                /\ IsSubstr(ChairMark, RowDuty(rows[r])))
            => IsSubstr(ChairMark, ret.out[e].duty_desc)

\* C5, amended: if any source row of a person that is not an excluded acting row
\* carries a chair-designation label, the person has a merged entry and its role is
\* a chair-designation label, whatever the order of the rows.
C5_KeptChairRowWins ==
    CommitteeReturned =>
        \A r \in 1..Len(rows) :
            (/\ IsSubstr(ChairMark, RowDuty(rows[r]))
             /\ ~IsSubstr(ActingMark, RowDuty(rows[r])))
            => \E e \in 1..Len(ret.out) :
                  /\ ret.out[e].mk_id = rows[r].PersonID
                  /\ IsSubstr(ChairMark, ret.out[e].duty_desc)

\* a person met first as a plain member and then as chair is returned as chair
C5_Witness ==
    /\ CommitteeReturned
    /\ \E r1, r2 \in 1..Len(rows) :
          /\ r1 < r2
          /\ rows[r1].PersonID = rows[r2].PersonID
          /\ RowDuty(rows[r1]) = MemberLabel
          /\ RowDuty(rows[r2]) = ChairMark
          /\ \E e \in 1..Len(ret.out) :
                /\ ret.out[e].mk_id = rows[r1].PersonID
                /\ ret.out[e].duty_desc = ChairMark

\* the duty labels observed in the rows of one person
LabelsOf(id) == {RowDuty(rows[r]) : r \in {n \in 1..Len(rows) : rows[n].PersonID = id}}

\* the duty labels observed in the rows of one person that are not acting rows
KeptLabelsOf(id) == {d \in LabelsOf(id) : ~IsSubstr(ActingMark, d)}

\* C11: the roster has exactly one record per distinct person id among the source
\* rows, and that record contains the union of all the duty labels observed in that
\* person's rows.
C11_OneRecordWithAllLabels ==
    CommitteeReturned =>
        /\ {ret.out[e].mk_id : e \in 1..Len(ret.out)}
              = {rows[r].PersonID : r \in 1..Len(rows)}
        /\ \A e, f \in 1..Len(ret.out) : ret.out[e].mk_id = ret.out[f].mk_id => e = f
        /\ \A e \in 1..Len(ret.out) : {ret.out[e].duty_desc} = LabelsOf(ret.out[e].mk_id)

\* what the roster does keep: one record per person with a row that is not an acting
\* row, carrying one of that person's labels
RosterOneLabelPerKeptPerson ==
    CommitteeReturned =>
        /\ {ret.out[e].mk_id : e \in 1..Len(ret.out)}
              = {rows[r].PersonID : r \in {n \in 1..Len(rows) :
                                              ~IsSubstr(ActingMark, RowDuty(rows[n]))}}
        /\ \A e, f \in 1..Len(ret.out) : ret.out[e].mk_id = ret.out[f].mk_id => e = f
        /\ \A e \in 1..Len(ret.out) : ret.out[e].duty_desc \in KeptLabelsOf(ret.out[e].mk_id)

\* a person with a plain-member row and a chair row, neither of them acting, whose
\* record carries one of the two labels only
RosterDropsLabel ==
    /\ CommitteeReturned
    /\ \E e \in 1..Len(ret.out) :
          /\ KeptLabelsOf(ret.out[e].mk_id) = {MemberLabel, ChairMark}
          /\ ret.out[e].duty_desc = ChairMark

-----------------------------------------------------------------------------
(* SpecFaction: one _most_recent_faction call on the memberships of one    *)
(* member, up to MaxFactions of them.  The memberships differ in term,     *)
(* start date (absent, empty, "10", "2") and name; one has no term and     *)
(* one is the falsy entry.                                                 *)

FactionPool ==
    { Faction(<<"x">>, <<"2">>, 25),
      Faction(<<"y">>, <<"2">>, 25),
      Faction(<<"x">>, <<"1", "0">>, 25),
      Faction(<<"y">>, <<>>, 25),
      [faction_name |-> <<"x">>, knesset |-> 25],
      Faction(<<"x">>, <<"2">>, 24),
      [faction_name |-> <<"y">>, start_date |-> <<"2">>],
      <<>> }

InitFaction ==
    /\ \E fs \in SeqsUpTo(FactionPool, MaxFactions) : mk = Member(<<>>, <<"a">>, <<>>, fs)
    /\ query = <<>>
    /\ rows = <<>>
    /\ docs = <<>>
    /\ NoMembers
    /\ NoBill
    /\ ret = NoCall
    /\ pc = "call"

Resolve ==
    /\ pc = "call"
    /\ pc' = "done"
    /\ \E knesset_num \in Terms :
          ret' = Returned("_most_recent_faction", knesset_num,
                          MostRecentFaction(mk.factions, knesset_num))
    /\ UNCHANGED <<memberVars, inputVars, billVars>>

SpecFaction == InitFaction /\ [][Resolve]_vars

FactionResolved == ret.op = "_most_recent_faction" /\ ret.kind = "value"

\* the positions of the memberships of the call's term
OfTerm ==
    {i \in 1..Len(mk.factions) :
        /\ "knesset" \in DOMAIN mk.factions[i]
        /\ mk.factions[i].knesset = ret.arg}

\* the start date of a membership; a missing one counts as the empty string
StartOf(i) ==
    IF "start_date" \in DOMAIN mk.factions[i] THEN mk.factions[i].start_date ELSE <<>>

\* C12: the resolver returns none when no membership has the term; otherwise it
\* returns a membership of the term whose start date is greatest among the
\* memberships of the term (an empty or missing start date is the minimum), and of
\* several with the greatest start date it returns the first in the input order.
C12_MostRecentFaction ==
    FactionResolved =>
        /\ OfTerm = {} <=> ret.out = <<>>
        /\ OfTerm # {} =>
              \E i \in OfTerm :
                  /\ ret.out = <<mk.factions[i]>>
                  /\ \A j \in OfTerm : ~StrLess(StartOf(i), StartOf(j))
                  /\ \A j \in OfTerm : j < i => StrLess(StartOf(j), StartOf(i))

\* three memberships of the term: an earlier one, then two that share the greatest
\* start date under different names; the first of the two is returned
C12_Witness ==
    /\ FactionResolved
    /\ ret.arg = 25
    /\ mk.factions = <<Faction(<<"x">>, <<"1", "0">>, 25),
                       Faction(<<"y">>, <<"2">>, 25),
                       Faction(<<"x">>, <<"2">>, 25)>>
    /\ ret.out = <<Faction(<<"y">>, <<"2">>, 25)>>

-----------------------------------------------------------------------------
(* Bill documents (lines 32-37, 82-84, 302-322).  The stage labels are     *)
(* written in English stand-ins for the Hebrew labels of the list.         *)

DOC_GROUP_PRIORITY ==
    <<"second and third reading", "first reading", "consolidated text",
      "gazette publication">>

\* _fix_file_path
FixFilePath(path) == [i \in 1..Len(path) |-> IF path[i] = "\\" THEN "/" ELSE path[i]]

\* _priority with a missing label given the index -1 (str.find's answer)
PriorityMinusOne(doc) ==
    LET desc == GetOr(doc, "GroupTypeDesc", "")
        hits == {i \in 1..Len(DOC_GROUP_PRIORITY) : DOC_GROUP_PRIORITY[i] = desc}
    IN IF hits = {} THEN 0 - 1
       ELSE (CHOOSE i \in hits : \A j \in hits : i <= j) - 1

\* _priority: list.index, and len(list) on ValueError
Priority(doc) ==
    LET desc == GetOr(doc, "GroupTypeDesc", "")
        hits == {i \in 1..Len(DOC_GROUP_PRIORITY) : DOC_GROUP_PRIORITY[i] = desc}
    IN IF hits = {} THEN Len(DOC_GROUP_PRIORITY)
       ELSE (CHOOSE i \in hits : \A j \in hits : i <= j) - 1

PriorityLess(a, b) == Priority(a) < Priority(b)

\* the dict get_bill_documents builds for one row
DocEntry(doc) ==
    [doc_id |-> doc.Id,
     group  |-> GetOr(doc, "GroupTypeDesc", "None"),
     format |-> GetOr(doc, "ApplicationDesc", "None"),
     url    |-> FixFilePath(doc.FilePath)]

\* get_bill_documents, given the rows of the answer
BillDocuments(ds) ==
    LET sorted == StableSort(ds, {p \in Pairs(ds) : PriorityLess(ds[p[1]], ds[p[2]])})
        usable(doc) == GetOr(doc, "FilePath", <<>>) # <<>>
        kept == SelectSeq(sorted, usable)
    IN [i \in 1..Len(kept) |-> DocEntry(kept[i])]

\* a document row: a label of "absent" or a path of "absent" leaves the key out
DocRow(group, format, path) ==
    LET base == [ApplicationDesc |-> format]
        withGroup == IF group = "absent" THEN base ELSE Put(base, "GroupTypeDesc", group)
    IN IF path = "absent" THEN withGroup ELSE Put(withGroup, "FilePath", path)

\* the rows carry distinct ids: the id is the position in the answer
WithDocIds(list) == [i \in 1..Len(list) |-> Put(list[i], "Id", i)]

-----------------------------------------------------------------------------
(* SpecDocs: one get_bill_documents call on up to MaxDocs rows.            *)

Labels ==
    {DOC_GROUP_PRIORITY[i] : i \in 1..Len(DOC_GROUP_PRIORITY)} \cup {"committee draft", "absent"}

DocPool ==
    {DocRow(g, "PDF", path) : g \in Labels, path \in {"absent", <<>>, <<"p", "\\", "p">>}}

InitDocs ==
    /\ \E ds \in SeqsUpTo(DocPool, MaxDocs) : docs = WithDocIds(ds)
    /\ mk = <<>>
    /\ query = <<>>
    /\ rows = <<>>
    /\ NoMembers
    /\ NoBill
    /\ ret = NoCall
    /\ pc = "call"

Rank ==
    /\ pc = "call"
    /\ pc' = "done"
    /\ \E ok \in BOOLEAN :
           ret' = IF ok
                  THEN Returned("get_bill_documents", <<>>, BillDocuments(docs))
                  ELSE Raised("get_bill_documents", <<>>)
    /\ UNCHANGED <<memberVars, inputVars, billVars>>

SpecDocs == InitDocs /\ [][Rank]_vars

DocsReturned == ret.op = "get_bill_documents" /\ ret.kind = "value"

\* the stage priority of section 4.6: second/third reading, first reading,
\* consolidated text, gazette publication, and every other label after them
StageRank(label) ==
    CASE label = "second and third reading" -> 1
      [] label = "first reading"            -> 2
      [] label = "consolidated text"        -> 3
      [] label = "gazette publication"      -> 4
      [] OTHER                              -> 5

\* C7: the ranking contains exactly the input rows with a usable file path, ordered by
\* the fixed stage priority; rows with a label outside the list come after all rows
\* with known labels; rows of equal priority keep their input order.
C7_DocumentRanking ==
    DocsReturned =>
        LET out == ret.out
        IN /\ {out[i].doc_id : i \in 1..Len(out)}
                 = {docs[d].Id : d \in {n \in 1..Len(docs) :
                                           /\ "FilePath" \in DOMAIN docs[n]
                                           /\ docs[n].FilePath # <<>>}}
           /\ \A i, j \in 1..Len(out) : out[i].doc_id = out[j].doc_id => i = j
           /\ \A i, j \in 1..Len(out) : i < j =>
                 /\ StageRank(out[i].group) <= StageRank(out[j].group)
                 /\ StageRank(out[i].group) = StageRank(out[j].group)
                        => out[i].doc_id < out[j].doc_id

\* the spec's example: gazette, first reading and an unlisted label come back as
\* first reading, gazette, unlisted
C7_Witness ==
    /\ DocsReturned
    /\ Len(docs) = 3
    /\ Len(ret.out) = 3
    /\ GetOr(docs[1], "GroupTypeDesc", "") = "gazette publication"
    /\ GetOr(docs[2], "GroupTypeDesc", "") = "first reading"
    /\ GetOr(docs[3], "GroupTypeDesc", "") = "committee draft"
    /\ <<ret.out[1].doc_id, ret.out[2].doc_id, ret.out[3].doc_id>> = <<2, 1, 3>>

-----------------------------------------------------------------------------
(* Bill text (lines 325-366).  get_bill_text is modelled a request at a    *)
(* time: the listing of the documents, then one step per ranked document.  *)
(* What a document's fetch and extraction bring is the environment's       *)
(* choice: an exception, or the text of each page (empty for a page        *)
(* without text).                                                          *)

PageTexts == {<<>>, <<"a">>, <<" ">>}

Outcomes ==
    {[error |-> e, pages |-> <<>>] : e \in {"network", "pdf"}}
        \cup {[error |-> "none", pages |-> ps] : ps \in SeqsUpTo(PageTexts, MaxPages)}

\* pages.append(text) for each page with text; "\n".join(pages).strip()
FullText(pages) ==
    LET hasText(t) == t # <<>>
    IN Strip(Join(<<"\n">>, SelectSeq(pages, hasText)))

\* the dict get_bill_text returns, with the text returned whole
BillTextUncut(doc, full_text, max_chars) ==
    [doc_id |-> doc.doc_id, group |-> doc.group, url |-> doc.url,
     text |-> full_text,
     truncated |-> Len(full_text) > max_chars]

\* the dict get_bill_text returns
BillText(doc, full_text, max_chars) ==
    [doc_id |-> doc.doc_id, group |-> doc.group, url |-> doc.url,
     text |-> SliceTo(full_text, max_chars),
     truncated |-> Len(full_text) > max_chars]

\* if doc["format"] not in ("PDF", "PPT")
Readable(doc) == doc.format \in {"PDF", "PPT"}

\* the loop's next document when every format is taken as readable
NextCandidateAnyFormat(ranked, from) ==
    IF from <= Len(ranked) THEN from ELSE Len(ranked) + 1

\* the position of the first readable document at or after `from`, or past the end
NextCandidate(ranked, from) ==
    LET later == {i \in from..Len(ranked) : Readable(ranked[i])}
    IN IF later = {} THEN Len(ranked) + 1
       ELSE CHOOSE i \in later : \A j \in later : i <= j

Budgets == {0 - 1} \cup 0..MaxChars

\* docs = get_bill_documents(bill_id); if not docs: return None
BillTextStart ==
    /\ pc = "call"
    /\ \E ok \in BOOLEAN, max_chars \in Budgets :
          IF ~ok
          THEN /\ ret' = Raised("get_bill_text", max_chars)
               /\ pc' = "done"
               /\ UNCHANGED cursor
          ELSE IF BillDocuments(docs) = <<>>
          THEN /\ ret' = [op |-> "get_bill_text", arg |-> max_chars, kind |-> "none",
                          err |-> "", out |-> <<>>]
               /\ pc' = "done"
               /\ UNCHANGED cursor
          ELSE /\ ret' = [op |-> "get_bill_text", arg |-> max_chars, kind |-> "running",
                          err |-> "", out |-> <<>>]
               /\ pc' = "loop"
               /\ cursor' = NextCandidate(BillDocuments(docs), 1)
    /\ UNCHANGED <<memberVars, inputVars, attempts>>

\* one readable document: the request, the extraction, and the return or the move to
\* the next readable document
BillTextTry ==
    /\ pc = "loop"
    /\ cursor <= Len(BillDocuments(docs))
    /\ \E o \in Outcomes :
          LET doc == BillDocuments(docs)[cursor]
              full_text == IF o.error = "none" THEN FullText(o.pages) ELSE <<>>
          IN /\ attempts' = Append(attempts, [doc_id |-> doc.doc_id, text |-> full_text])
             /\ IF full_text = <<>>
                THEN /\ cursor' = NextCandidate(BillDocuments(docs), cursor + 1)
                     /\ UNCHANGED <<ret, pc>>
                ELSE /\ ret' = [ret EXCEPT !.kind = "value",
                                           !.out = BillText(doc, full_text, ret.arg)]
                     /\ pc' = "done"
                     /\ UNCHANGED cursor
    /\ UNCHANGED <<memberVars, inputVars>>

\* the loop ran out of documents: return None
BillTextExhausted ==
    /\ pc = "loop"
    /\ cursor > Len(BillDocuments(docs))
    /\ ret' = [ret EXCEPT !.kind = "none"]
    /\ pc' = "done"
    /\ UNCHANGED <<memberVars, inputVars, billVars>>

-----------------------------------------------------------------------------
(* SpecBill: one get_bill_text call on up to MaxTextDocs document rows.    *)

TextDocPool ==
    {DocRow("first reading", "PDF", <<"p">>), DocRow("gazette publication", "PPT", <<"p">>),
     DocRow("first reading", "DOC", <<"p">>), DocRow("first reading", "PDF", <<>>)}

InitBill ==
    /\ \E ds \in SeqsUpTo(TextDocPool, MaxTextDocs) : docs = WithDocIds(ds)
    /\ mk = <<>>
    /\ query = <<>>
    /\ rows = <<>>
    /\ NoMembers
    /\ NoBill
    /\ ret = NoCall
    /\ pc = "call"

NextBill == BillTextStart \/ BillTextTry \/ BillTextExhausted

SpecBill == InitBill /\ [][NextBill]_vars

TextReturned == ret.op = "get_bill_text" /\ pc = "done" /\ ret.kind = "value"

\* the untruncated extracted text of the call that returned
Extracted == attempts[Len(attempts)].text

\* C6 as stated: the returned text is never longer than maxChars, and truncated is
\* true if and only if the untruncated extracted text was longer than maxChars.
C6_TextWithinBudget ==
    TextReturned =>
        /\ Len(ret.out.text) <= ret.arg
        /\ ret.out.truncated <=> Len(Extracted) > ret.arg

\* C6, amended: for a budget maxChars >= 0, the returned text is never longer than
\* maxChars (it is the first maxChars characters of the extracted text), and
\* truncated is true if and only if the extracted text was longer than maxChars.
C6_TextWithinNonNegativeBudget ==
    (TextReturned /\ ret.arg >= 0) =>
        /\ Len(ret.out.text) <= ret.arg
        /\ ret.out.text = SubSeq(Extracted, 1, Len(ret.out.text))
        /\ ret.out.truncated <=> Len(Extracted) > ret.arg
        /\ ~ret.out.truncated => ret.out.text = Extracted

\* a text of three characters returned under a budget of two
C6_Witness ==
    /\ TextReturned
    /\ ret.arg = 2
    /\ Len(Extracted) = 3
    /\ Len(ret.out.text) = 2
    /\ ret.out.truncated

\* the ids of the ranked documents of a readable format, in ranked order
ReadableIds ==
    LET ranked == BillDocuments(docs)
        ok == IndicesFrom(ranked, {i \in 1..Len(ranked) : ranked[i].format \in {"PDF", "PPT"}}, 1)
    IN [n \in 1..Len(ok) |-> ranked[ok[n]].doc_id]

\* C10: get_bill_text attempts the documents in ranked order, skips the documents
\* whose format is not PDF/slide, returns the text of the first document that yields
\* non-empty text without attempting any later one, and returns None, without
\* raising, when every candidate fails.
C10_FirstReadableText ==
    ret.op = "get_bill_text" =>
        /\ Len(attempts) <= Len(ReadableIds)
        /\ \A n \in 1..Len(attempts) :
              /\ attempts[n].doc_id = ReadableIds[n]
              /\ n < Len(attempts) => attempts[n].text = <<>>
        /\ (pc = "done" /\ ret.kind = "value") =>
              /\ attempts # <<>>
              /\ Extracted # <<>>
              /\ ret.out.doc_id = attempts[Len(attempts)].doc_id
              /\ ret.out.text = SliceTo(Extracted, ret.arg)
        /\ (pc = "done" /\ ret.kind = "none") =>
              /\ Len(attempts) = Len(ReadableIds)
              /\ \A n \in 1..Len(attempts) : attempts[n].text = <<>>
        /\ ret.kind = "raise" => attempts = <<>>

\* a call that skipped an unreadable document, failed on a readable one and returned
\* the text of the next
C10_Witness ==
    /\ ret.op = "get_bill_text"
    /\ pc = "done"
    /\ ret.kind = "value"
    /\ Len(attempts) = 2
    /\ Len(BillDocuments(docs)) = 3
    /\ ret.out.doc_id = BillDocuments(docs)[3].doc_id

====
